---- MODULE Spec2Model ----
(***************************************************************************)
(* State-machine model of the candlestick chart application:               *)
(*   - App (src/src/main.rs): the series window (candles, visible_candles, *)
(*     pan_offset), the chart handed to the renderer, and the fetch shell  *)
(*     (selected_interval, loading, error, fetch tasks in flight);         *)
(*   - ChartState (src/src/candlestick.rs): the interaction controller of  *)
(*     the canvas program (dragging, last_x, cursor_position);             *)
(*   - CandlestickChart::draw (src/src/candlestick.rs): the primitives put *)
(*     on the Frame for the chart's candles and the hover position.        *)
(*                                                                         *)
(* Encodings.                                                              *)
(*   Vec<Candle>  A fetched series is the record [iv, len]: the len bars   *)
(*                that fetch_klines delivered for interval iv; bar i of it *)
(*                is <<iv, len, i>>.  Every empty Vec is EmptyVec.         *)
(*   chart        None, or Some(slice): the copy candles[start..end] kept  *)
(*                as [iv, len, start, end] (empty slices are all equal).   *)
(*   usize        A value is kept as its representative modulo 2^64 in     *)
(*                (-2^63, 2^63): n >= 0 is n, n < 0 is 2^64 + n (what a    *)
(*                wrapped subtraction leaves).  UMin, UMax, ULe, USatSub   *)
(*                order the representatives as unsigned values.            *)
(*   f32          A positive f32 is [m, e] = m * 2^e with a 24-bit         *)
(*                mantissa; F32Div rounds to nearest, ties to even.        *)
(*   f64          Prices and volumes are integers; a quotient is kept as   *)
(*                the exact fraction [fin, num, den], and as NaN or Inf    *)
(*                (fin = FALSE) where the divisor is 0.                    *)
(*   panic        An arithmetic overflow aborts the process when overflow  *)
(*                checks are compiled in (debug) and wraps when they are   *)
(*                not (release): both outcomes are successors.             *)
(***************************************************************************)
EXTENDS Integers, Sequences, FiniteSets, TLC

VARIABLES
    chart,              \* App.chart: Option<CandlestickChart>
    candles,            \* App.candles: Vec<Candle>
    selected_interval,  \* App.selected_interval
    loading,            \* App.loading
    error,              \* App.error: Option<String>
    visible_candles,    \* App.visible_candles: usize
    pan_offset,         \* App.pan_offset: usize
    pending,            \* fetch_klines tasks in flight, per requested interval
    panicked,           \* the process aborted on a panic
    dragging,           \* ChartState.dragging
    last_x,             \* ChartState.last_x
    cursor_position,    \* ChartState.cursor_position: Option<Point>
    event,              \* the event last handed to Program::update, with its cursor
    returned,           \* what Program::update returned for it: (Status, Option<ChartMessage>)
    chart_candles,      \* CandlestickChart.candles of the chart that is drawn
    frame               \* the Frame the last Program::draw returned: its primitives in order

appVars == <<chart, candles, selected_interval, loading, error, visible_candles,
             pan_offset, pending, panicked>>
ctlVars == <<dragging, last_x, cursor_position, event, returned>>
drawVars == <<chart_candles, frame>>
vars == <<chart, candles, selected_interval, loading, error, visible_candles,
          pan_offset, pending, panicked, dragging, last_x, cursor_position,
          event, returned, chart_candles, frame>>

----------------------------------------------------------------------------
(* Bounds of the model *)

\* length of the short series the fetch may deliver (fewer bars than MinVisible)
ShortLen == 5
\* length of the long series the fetch may deliver (more bars than InitialVisible)
LongLen == 120
\* fetch tasks in flight at once
MaxInFlight == 2
\* how far below 2^64 a wrapped visible_candles is followed
MaxWrap == 10
\* the cursor is reported at x = 0, 50, .., 50 * MaxPos
MaxPos == 2
\* a drawn chart holds 0..MaxBars candles, or WideLen candles
MaxBars == 11
WideLen == 100
\* size of the surface the chart is drawn on (bounds.width, bounds.height)
DrawWidth == 800
DrawHeight == 600

(* Program constants *)

InitialVisible == 100
ButtonStep == 10
WheelStep == 5
MinVisible == 10
SurfaceWidth == 800
Sensitivity == 2
I32Max == 2147483647
I32Min == -2147483647 - 1
LeftMargin == 10
BottomMargin == 30
TopMargin == 10
RightMargin == 60
NumPriceLines == 5
MaxXLabels == 5

\* Interval::default(), and the intervals the user picks among
DefaultInterval == "1h"
Intervals == {DefaultInterval}
\* the intervals picked among when fetches overlap
FetchIntervals == {DefaultInterval, "5m"}
\* lengths of the series a fetch may deliver
LoadLens == {0, ShortLen, LongLen}
\* messages fetch_klines may fail with
ErrMsgs == {"Failed to fetch data", "Binance API error"}
\* wheel deltas (ScrollDelta y) and drag deltas (pixels) the chart may report
WheelDeltas == {-1, 0, 1}
PixelDeltas == {-4000, 1, 4000}
\* where the cursor may be reported, and the wheel deltas of SpecChart
Xs == {50 * i : i \in 0..MaxPos}
Ys == {100}

----------------------------------------------------------------------------
(* Vec<Candle> and slices *)

EmptyVec == [iv |-> "none", len |-> 0]
Series(iv, n) == IF n = 0 THEN EmptyVec ELSE [iv |-> iv, len |-> n]
VecLen(v) == v.len

None == [some |-> FALSE, iv |-> "none", len |-> 0, start |-> 0, end |-> 0]
\* Some(CandlestickChart::new(v[start..end].to_vec()))
SomeSlice(v, start, end) ==
    IF start = end
    THEN [some |-> TRUE, iv |-> "none", len |-> 0, start |-> 0, end |-> 0]
    ELSE [some |-> TRUE, iv |-> v.iv, len |-> v.len, start |-> start, end |-> end]
\* number of bars the chart holds
ChartLen(c) == c.end - c.start

NoError == "None"

----------------------------------------------------------------------------
(* usize arithmetic on representatives *)

Wrapped(a) == a < 0
ULe(a, b) == IF Wrapped(a) = Wrapped(b) THEN a <= b ELSE Wrapped(b)
UMin(a, b) == IF ULe(a, b) THEN a ELSE b
UMax(a, b) == IF ULe(a, b) THEN b ELSE a
\* a - b overflows (borrows) iff a < b as unsigned values; b is a small constant
USubOverflows(a, b) == ~Wrapped(a) /\ a < b
\* a + b overflows (carries) iff a is within b of 2^64
UAddOverflows(a, b) == Wrapped(a) /\ a + b >= 0
USatSub(a, b) == IF ULe(a, b) THEN 0 ELSE a - b

----------------------------------------------------------------------------
(* f32 arithmetic *)

MantBits == 24

RECURSIVE Normalize(_)
Normalize(x) ==
    IF x.m >= 2^MantBits THEN Normalize([m |-> x.m \div 2, e |-> x.e + 1])
    ELSE IF x.m < 2^(MantBits - 1) THEN Normalize([m |-> x.m * 2, e |-> x.e - 1])
    ELSE x

\* an integer 0 < n < 2^24 as f32 (exact)
F32(n) == Normalize([m |-> n, e |-> 0])

\* k further quotient bits of r / d by long division: <<quotient, remainder>>
RECURSIVE DivBits(_, _, _, _)
DivBits(r, d, q, k) ==
    IF k = 0 THEN <<q, r>>
    ELSE IF 2 * r >= d THEN DivBits(2 * r - d, d, 2 * q + 1, k - 1)
         ELSE DivBits(2 * r, d, 2 * q, k - 1)

\* x / y rounded to f32 (nearest, ties to even)
F32Div(x, y) ==
    LET a == Normalize(x)
        b == Normalize(y)
        ge == a.m >= b.m
        qr == IF ge THEN DivBits(a.m - b.m, b.m, 1, MantBits - 1)
                    ELSE DivBits(a.m, b.m, 0, MantBits)
        q == qr[1]
        r == qr[2]
        up == 2 * r > b.m \/ (2 * r = b.m /\ q % 2 = 1)
    IN  [m |-> IF up THEN q + 1 ELSE q,
         e |-> a.e - b.e - (IF ge THEN MantBits - 1 ELSE MantBits)]

\* a positive f32 `as i32`: truncated toward zero, saturating
F32Trunc(x) ==
    IF x.e >= 8 THEN I32Max
    ELSE IF x.e >= 0 THEN x.m * 2^x.e
    ELSE IF x.e < -30 THEN 0
    ELSE x.m \div 2^(-x.e)

Abs(n) == IF n < 0 THEN -n ELSE n

----------------------------------------------------------------------------
(* App::update, main.rs *)

\* (pixel_delta * sensitivity / pixels_per_candle) as i32, with
\* pixels_per_candle = 800.0 / visible_candles as f32
CandleDelta(pixel_delta, vc) ==
    IF pixel_delta = 0 \/ vc = 0 THEN 0            \* x / inf = 0
    ELSE IF Wrapped(vc)                            \* 800 / 2^64: the quotient saturates
         THEN IF pixel_delta > 0 THEN I32Max ELSE I32Min
    ELSE LET pixels_per_candle == F32Div(F32(SurfaceWidth), F32(vc))
             mag == F32Trunc(F32Div(F32(Abs(pixel_delta) * Sensitivity),
                                    pixels_per_candle))
         IN  IF pixel_delta > 0 THEN mag ELSE -mag

\* the application state as one value, for the handlers below
Self == [chart |-> chart, candles |-> candles, selected_interval |-> selected_interval,
         loading |-> loading, error |-> error, visible_candles |-> visible_candles,
         pan_offset |-> pan_offset, panicked |-> panicked]

Panic(s) == [s EXCEPT !.panicked = TRUE]

\* fn update_chart(&mut self)
update_chart(s) ==
    IF s.panicked \/ VecLen(s.candles) = 0 THEN s
    ELSE IF s.pan_offset > VecLen(s.candles)
         THEN Panic(s)     \* len - pan_offset overflows, or the wrapped end is out of range
    ELSE LET end == VecLen(s.candles) - s.pan_offset
             start == USatSub(end, s.visible_candles)
         IN  [s EXCEPT !.chart = SomeSlice(s.candles, start, end)]

\* LoadVisible without the clamp to the length of the new series
LoadVisible_NoClamp(vc, n) == vc

\* Message::DataFetched(Ok(candles)): the clamp of visible_candles
LoadVisible(vc, n) == UMin(vc, n)

\* OnDataFetched that also resets the window on a failed fetch
OnDataFetched_ErrResetsWindow(s, result) ==
    LET s1 == [s EXCEPT !.loading = FALSE]
    IN  IF result.ok
        THEN LET s2 == [s1 EXCEPT !.candles = result.candles,
                                  !.pan_offset = 0,
                                  !.visible_candles = LoadVisible(@, VecLen(result.candles))]
             IN  [update_chart(s2) EXCEPT !.error = NoError]
        ELSE [s1 EXCEPT !.error = result.e, !.pan_offset = 0]

\* Message::DataFetched(result); result is [ok |-> TRUE, candles |-> v] or
\* [ok |-> FALSE, e |-> message]
OnDataFetched(s, result) ==
    LET s1 == [s EXCEPT !.loading = FALSE]
    IN  IF result.ok
        THEN LET s2 == [s1 EXCEPT !.candles = result.candles,
                                  !.pan_offset = 0,
                                  !.visible_candles = LoadVisible(@, VecLen(result.candles))]
             IN  [update_chart(s2) EXCEPT !.error = NoError]
        ELSE [s1 EXCEPT !.error = result.e]

\* ZoomOutCount that widens by the button step whatever the step
ZoomOutCount_ButtonStep(vc, step, n) == UMin(vc + ButtonStep, n)

\* (self.visible_candles - step).max(10)
ZoomInCount(vc, step) == UMax(vc - step, MinVisible)
\* (self.visible_candles + step).min(self.candles.len())
ZoomOutCount(vc, step, n) == UMin(vc + step, n)

\* Message::ZoomIn (step 10) and ChartMessage::Zoom(delta > 0.0) (step 5);
\* oc: overflow checks are compiled in
OnZoomIn(s, step, oc) ==
    IF USubOverflows(s.visible_candles, step) /\ oc THEN Panic(s)
    ELSE update_chart([s EXCEPT !.visible_candles = ZoomInCount(@, step)])

\* Message::ZoomOut (step 10) and ChartMessage::Zoom(delta <= 0.0) (step 5)
OnZoomOut(s, step, oc) ==
    IF UAddOverflows(s.visible_candles, step) /\ oc THEN Panic(s)
    ELSE update_chart([s EXCEPT !.visible_candles = ZoomOutCount(@, step, VecLen(s.candles))])

\* OnChartZoom that takes a delta of 0 for a zoom-in
OnChartZoom_ZeroZoomsIn(s, delta, oc) ==
    IF delta >= 0 THEN OnZoomIn(s, WheelStep, oc) ELSE OnZoomOut(s, WheelStep, oc)

\* ChartMessage::Zoom(delta)
OnChartZoom(s, delta, oc) ==
    IF delta > 0 THEN OnZoomIn(s, WheelStep, oc) ELSE OnZoomOut(s, WheelStep, oc)

\* PanOffset without the upper clamp .min(max_offset)
PanOffset_NoUpperClamp(pan, candle_delta, max_offset, wrapped) ==
    LET sum == IF wrapped THEN (candle_delta - I32Max) + (pan - I32Max) - 2
                          ELSE pan + candle_delta
    IN  IF sum < 0 THEN 0 ELSE sum

\* (pan_offset as i32 + candle_delta).max(0).min(max_offset as i32) as usize,
\* the sum taken after an i32 wrap-around when wrapped is TRUE
PanOffset(pan, candle_delta, max_offset, wrapped) ==
    LET sum == IF wrapped THEN (candle_delta - I32Max) + (pan - I32Max) - 2
                          ELSE pan + candle_delta
        lo == IF sum < 0 THEN 0 ELSE sum
    IN  IF lo > max_offset THEN max_offset ELSE lo

\* ChartMessage::Pan(pixel_delta)
OnChartPan(s, pixel_delta, oc) ==
    LET candle_delta == CandleDelta(pixel_delta, s.visible_candles)
        max_offset == USatSub(VecLen(s.candles), s.visible_candles)
        overflows == candle_delta > I32Max - s.pan_offset
    IN  IF overflows /\ oc THEN Panic(s)
        ELSE update_chart([s EXCEPT !.pan_offset =
                 PanOffset(@, candle_delta, max_offset, overflows)])

\* the handler's result becomes the application state
Becomes(s) ==
    /\ chart' = s.chart
    /\ candles' = s.candles
    /\ selected_interval' = s.selected_interval
    /\ loading' = s.loading
    /\ error' = s.error
    /\ visible_candles' = s.visible_candles
    /\ pan_offset' = s.pan_offset
    /\ panicked' = s.panicked

RECURSIVE Sum(_, _)
Sum(f, S) == IF S = {} THEN 0 ELSE LET i == CHOOSE j \in S : TRUE
                                   IN  f[i] + Sum(f, S \ {i})
InFlight == Sum(pending, DOMAIN pending)

\* Task::perform(binance::fetch_klines("BTCUSDT", interval, 500), Message::DataFetched)
Perform(interval) == pending' = [pending EXCEPT ![interval] = @ + 1]

OverflowChecks == BOOLEAN

\* Message::IntervalSelected(interval)
IntervalSelected(interval) ==
    /\ ~panicked
    /\ InFlight < MaxInFlight
    /\ Becomes([Self EXCEPT !.selected_interval = interval,
                            !.loading = TRUE,
                            !.error = NoError])
    /\ Perform(interval)
    /\ UNCHANGED <<ctlVars, drawVars>>

\* Message::RefreshData
RefreshData ==
    /\ ~panicked
    /\ InFlight < MaxInFlight
    /\ Becomes([Self EXCEPT !.loading = TRUE, !.error = NoError])
    /\ Perform(selected_interval)
    /\ UNCHANGED <<ctlVars, drawVars>>

\* what fetch_klines(_, interval, 500) may complete with
Results(interval) ==
    {[ok |-> TRUE, candles |-> Series(interval, n), e |-> NoError] : n \in LoadLens}
    \cup {[ok |-> FALSE, candles |-> EmptyVec, e |-> m] : m \in ErrMsgs}

\* a fetch task for `interval` completes and Message::DataFetched(result) is handled
DataFetched(interval, result) ==
    /\ ~panicked
    /\ pending[interval] > 0
    /\ pending' = [pending EXCEPT ![interval] = @ - 1]
    /\ Becomes(OnDataFetched(Self, result))
    /\ UNCHANGED <<ctlVars, drawVars>>

\* Message::ZoomIn (the "+" button)
ZoomIn(oc) ==
    /\ ~panicked
    /\ visible_candles - ButtonStep >= -MaxWrap
    /\ Becomes(OnZoomIn(Self, ButtonStep, oc))
    /\ UNCHANGED <<pending, ctlVars, drawVars>>

\* Message::ZoomOut (the "-" button)
ZoomOut(oc) ==
    /\ ~panicked
    /\ Becomes(OnZoomOut(Self, ButtonStep, oc))
    /\ UNCHANGED <<pending, ctlVars, drawVars>>

\* Message::ChartEvent(ChartMessage::Zoom(delta)); the chart is in the view
\* only when self.chart is Some
ChartZoom(delta, oc) ==
    /\ ~panicked
    /\ chart.some
    /\ delta > 0 => visible_candles - WheelStep >= -MaxWrap
    /\ Becomes(OnChartZoom(Self, delta, oc))
    /\ UNCHANGED <<pending, ctlVars, drawVars>>

\* Message::ChartEvent(ChartMessage::Pan(pixel_delta))
ChartPan(pixel_delta, oc) ==
    /\ ~panicked
    /\ chart.some
    /\ Becomes(OnChartPan(Self, pixel_delta, oc))
    /\ UNCHANGED <<pending, ctlVars, drawVars>>

----------------------------------------------------------------------------
(* canvas::Program::update, candlestick.rs *)

\* Option<Point>; cursor.position() of mouse::Cursor
NoPoint == [some |-> FALSE, x |-> 0, y |-> 0]
Point(x, y) == [some |-> TRUE, x |-> x, y |-> y]
Cursors == {NoPoint} \cup {Point(x, y) : x \in Xs, y \in Ys}

\* (Status, Option<ChartMessage>)
Ret(status, msg, arg) == [status |-> status, msg |-> msg, arg |-> arg]
Ev(kind, y, cursor) == [kind |-> kind, y |-> y, cursor |-> cursor]

\* the ChartState as one value
State == [dragging |-> dragging, last_x |-> last_x, cursor_position |-> cursor_position]

\* mouse::Event::ButtonPressed(mouse::Button::Left)
OnButtonPressed(st, cursor) ==
    IF cursor.some
    THEN [state |-> [st EXCEPT !.dragging = TRUE, !.last_x = cursor.x],
          ret |-> Ret("Captured", "None", 0)]
    ELSE [state |-> st, ret |-> Ret("Ignored", "None", 0)]

\* mouse::Event::ButtonReleased(mouse::Button::Left)
OnButtonReleased(st, cursor) ==
    [state |-> [st EXCEPT !.dragging = FALSE], ret |-> Ret("Captured", "None", 0)]

\* OnCursorMoved that leaves the anchor where the press put it
OnCursorMoved_KeepsAnchor(st, cursor) ==
    LET st1 == [st EXCEPT !.cursor_position = cursor]
    IN  IF st1.dragging
        THEN IF cursor.some
             THEN [state |-> st1, ret |-> Ret("Captured", "Pan", cursor.x - st1.last_x)]
             ELSE [state |-> st1, ret |-> Ret("Ignored", "None", 0)]
        ELSE [state |-> st1, ret |-> Ret("Ignored", "None", 0)]

\* OnCursorMoved without the test of state.dragging
OnCursorMoved_NoDragCheck(st, cursor) ==
    LET st1 == [st EXCEPT !.cursor_position = cursor]
    IN  IF cursor.some
        THEN [state |-> [st1 EXCEPT !.last_x = cursor.x],
              ret |-> Ret("Captured", "Pan", cursor.x - st1.last_x)]
        ELSE [state |-> st1, ret |-> Ret("Ignored", "None", 0)]

\* mouse::Event::CursorMoved { .. }
OnCursorMoved(st, cursor) ==
    LET st1 == [st EXCEPT !.cursor_position = cursor]
    IN  IF st1.dragging
        THEN IF cursor.some
             THEN [state |-> [st1 EXCEPT !.last_x = cursor.x],
                   ret |-> Ret("Captured", "Pan", cursor.x - st1.last_x)]
             ELSE [state |-> st1, ret |-> Ret("Ignored", "None", 0)]
        ELSE [state |-> st1, ret |-> Ret("Ignored", "None", 0)]

\* OnCursorLeft that also ends the drag
OnCursorLeft_EndsDrag(st, cursor) ==
    [state |-> [st EXCEPT !.cursor_position = NoPoint, !.dragging = FALSE],
     ret |-> Ret("Ignored", "None", 0)]

\* mouse::Event::CursorLeft
OnCursorLeft(st, cursor) ==
    [state |-> [st EXCEPT !.cursor_position = NoPoint], ret |-> Ret("Ignored", "None", 0)]

\* mouse::Event::WheelScrolled { delta }
OnWheelScrolled(st, y) ==
    [state |-> st, ret |-> Ret("Captured", "Zoom", y)]

\* any other event
OnOther(st, cursor) == [state |-> st, ret |-> Ret("Ignored", "None", 0)]

\* the update's result becomes the ChartState and the returned pair
Updates(r) ==
    /\ dragging' = r.state.dragging
    /\ last_x' = r.state.last_x
    /\ cursor_position' = r.state.cursor_position
    /\ returned' = r.ret
    /\ UNCHANGED <<appVars, drawVars>>

WheelScrolled(y, cursor) ==
    /\ event' = Ev("WheelScrolled", y, cursor)
    /\ Updates(OnWheelScrolled(State, y))
ButtonPressed(cursor) ==
    /\ event' = Ev("ButtonPressed", 0, cursor)
    /\ Updates(OnButtonPressed(State, cursor))
ButtonReleased(cursor) ==
    /\ event' = Ev("ButtonReleased", 0, cursor)
    /\ Updates(OnButtonReleased(State, cursor))
CursorMoved(cursor) ==
    /\ event' = Ev("CursorMoved", 0, cursor)
    /\ Updates(OnCursorMoved(State, cursor))
CursorLeft(cursor) ==
    /\ event' = Ev("CursorLeft", 0, cursor)
    /\ Updates(OnCursorLeft(State, cursor))
OtherEvent(cursor) ==
    /\ event' = Ev("Other", 0, cursor)
    /\ Updates(OnOther(State, cursor))

\* ChartState::default(), before any event
CtlInit ==
    /\ dragging = FALSE
    /\ last_x = 0
    /\ cursor_position = NoPoint
    /\ event = Ev("none", 0, NoPoint)
    /\ returned = Ret("none", "None", 0)

----------------------------------------------------------------------------
(* canvas::Program::draw, candlestick.rs *)

\* the candles a drawn chart is made of: [timestamp, open, high, low, close, volume]
Candle(open, high, low, close, volume) ==
    [timestamp |-> 0, open |-> open, high |-> high, low |-> low, close |-> close,
     volume |-> volume]
FlatCandle == Candle(100, 100, 100, 100, 0)
BullCandle == Candle(100, 120, 90, 110, 5)
BearCandle == Candle(110, 120, 90, 100, 3)
DojiCandle == Candle(100, 110, 90, 100, 0)
CandleKinds == {FlatCandle, BullCandle, BearCandle, DojiCandle}
\* n candles alternating between two kinds, candle i stamped i
Candles(n, first, second) ==
    [i \in 1..n |-> [(IF i % 2 = 1 THEN first ELSE second) EXCEPT !.timestamp = i]]
\* charts of 0..MaxBars candles of every two kinds, and one wide chart
ChartInputs ==
    {Candles(n, a, b) : n \in 0..MaxBars, a \in CandleKinds, b \in CandleKinds}
    \cup {Candles(WideLen, BullCandle, BearCandle)}

\* Candle::is_bullish without the boundary case close == open
is_bullish_Strict(c) == c.close > c.open

\* Candle::is_bullish
is_bullish(c) == c.close >= c.open

\* quotients of f64 / f32 values
NaN == [fin |-> FALSE, num |-> 0, den |-> 0]
Inf == [fin |-> FALSE, num |-> 1, den |-> 0]
Frac(a, b) ==
    IF b = 0 THEN (IF a = 0 THEN NaN ELSE Inf)
    ELSE [fin |-> TRUE, num |-> a, den |-> b]
Whole(n) == Frac(n, 1)
FLe(x, y) == x.num * y.den <= y.num * x.den
\* f32::min and f32::max: the other operand when one is NaN
FMin(x, y) == IF ~x.fin THEN y ELSE IF ~y.fin THEN x ELSE IF FLe(x, y) THEN x ELSE y
FMax(x, y) == IF ~x.fin THEN y ELSE IF ~y.fin THEN x ELSE IF FLe(x, y) THEN y ELSE x
\* (x - y).abs()
FAbsDiff(x, y) ==
    IF ~x.fin \/ ~y.fin THEN NaN
    ELSE Frac(Abs(x.num * y.den - y.num * x.den), x.den * y.den)

\* the plotting rectangle inside the margins
Bounds == [width |-> DrawWidth, height |-> DrawHeight]
Geometry(bounds) ==
    [chart_x |-> LeftMargin,
     chart_y |-> TopMargin,
     chart_width |-> bounds.width - LeftMargin - RightMargin,
     chart_height |-> bounds.height - TopMargin - BottomMargin]

SetMin(S) == CHOOSE x \in S : \A y \in S : x <= y
SetMax(S) == CHOOSE x \in S : \A y \in S : x >= y
IntMin(a, b) == IF a <= b THEN a ELSE b

\* the price range of the candles, before and after the padding of a tenth
\* of it on both sides; padded values are in tenths of the price unit
MinLow(cs) == SetMin({cs[i].low : i \in DOMAIN cs})
MaxHigh(cs) == SetMax({cs[i].high : i \in DOMAIN cs})
PriceRange(cs) == MaxHigh(cs) - MinLow(cs)
MinPrice(cs) == 10 * MinLow(cs) - PriceRange(cs)
MaxPrice(cs) == 10 * MaxHigh(cs) + PriceRange(cs)
PriceSpan(cs) == MaxPrice(cs) - MinPrice(cs)
MaxVolume(cs) == SetMax({cs[i].volume : i \in DOMAIN cs})
\* min_price, price_span and max_volume as draw computes them, once per frame
Scale(cs) ==
    [min_price |-> MinPrice(cs), price_span |-> PriceSpan(cs), max_volume |-> MaxVolume(cs)]

\* chart_y + chart_height - ((price - min_price) / price_span) as f32 * chart_height
PriceToY(price, sc, g) ==
    LET ratio == Frac(10 * price - sc.min_price, sc.price_span)
    IN  IF ratio.fin
        THEN Frac((g.chart_y + g.chart_height) * ratio.den - ratio.num * g.chart_height,
                  ratio.den)
        ELSE ratio

\* (candle.volume / max_volume) as f32 * (chart_height * 0.3)
BarHeight(c, sc, g) ==
    LET volume_ratio == Frac(c.volume, sc.max_volume)
    IN  IF volume_ratio.fin
        THEN Frac(volume_ratio.num * g.chart_height * 3, volume_ratio.den * 10)
        ELSE volume_ratio

\* an f32 >= 0 `as usize`, truncated (values below 2^31 only)
F32ToUsize(x) ==
    IF x.e >= 0 THEN x.m * 2^x.e
    ELSE IF x.e < -30 THEN 0
    ELSE x.m \div 2^(-x.e)

\* CandleIndex that measures x from the left of the surface, not of the chart
CandleIndex_FromSurface(x, g, n) ==
    IF x = 0 THEN 0
    ELSE F32ToUsize(F32Div(F32(x), F32Div(F32(g.chart_width), F32(n))))

\* ((cursor_pos.x - chart_x) / candle_width) as usize, with
\* candle_width = chart_width / num_candles as f32
CandleIndex(x, g, n) ==
    IF x - g.chart_x = 0 THEN 0
    ELSE F32ToUsize(F32Div(F32(x - g.chart_x), F32Div(F32(g.chart_width), F32(n))))

\* one primitive put on the frame: a fill, a stroke or a text
Color(hue, alpha) == [hue |-> hue, alpha |-> alpha]
Prim(kind, i, color, a, b) == [kind |-> kind, i |-> i, color |-> color, a |-> a, b |-> b]
DirectionColor(c, alpha) == Color(IF is_bullish(c) THEN "green" ELSE "red", alpha)

Background == <<Prim("background", 0, Color("black", 100), Whole(0), Whole(0))>>

\* grid lines and price labels, i = 0..num_price_lines
GridLines(sc, g) ==
    [k \in 1..(2 * (NumPriceLines + 1)) |->
        LET i == (k - 1) \div 2
            y == Frac((g.chart_y + g.chart_height) * NumPriceLines - i * g.chart_height,
                      NumPriceLines)
        IN  IF k % 2 = 1
            THEN Prim("grid_line", i, Color("grid", 100), y, y)
            ELSE Prim("price_label", i, Color("text", 100), y,
                      Frac(NumPriceLines * sc.min_price + i * sc.price_span,
                           10 * NumPriceLines))]

\* LabelIndex with the stride of five labels whatever the number of candles
LabelIndex_StrideOfFive(i, n) ==
    LET step == n \div (MaxXLabels - 1)
    IN  IntMin(i * step, n - 1)

\* the candle index of x-axis label i
LabelIndex(i, n) ==
    LET num_x_labels == IntMin(MaxXLabels, n)
        step == IF num_x_labels > 1 THEN n \div (num_x_labels - 1) ELSE 1
    IN  IntMin(i * step, n - 1)

XLabels(cs, g) ==
    LET n == Len(cs)
    IN  [k \in 1..IntMin(MaxXLabels, n) |->
            LET candle_idx == LabelIndex(k - 1, n)
            IN  Prim("x_label", candle_idx, Color("text", 100),
                     Frac(g.chart_x * n + candle_idx * g.chart_width, n),
                     Whole(cs[candle_idx + 1].timestamp))]

Border == <<Prim("border", 0, Color("border", 100), Whole(0), Whole(0))>>

VolumeBars(cs, sc, g) ==
    [k \in 1..Len(cs) |->
        Prim("volume_bar", k - 1, DirectionColor(cs[k], 20),
             Frac(g.chart_x * Len(cs) + (k - 1) * g.chart_width, Len(cs)),
             BarHeight(cs[k], sc, g))]

\* wick and body of every candle
Candlesticks(cs, sc, g) ==
    [k \in 1..(2 * Len(cs)) |->
        LET candle == cs[(k + 1) \div 2]
            open_y == PriceToY(candle.open, sc, g)
            close_y == PriceToY(candle.close, sc, g)
            high_y == PriceToY(candle.high, sc, g)
            low_y == PriceToY(candle.low, sc, g)
        IN  IF k % 2 = 1
            THEN Prim("wick", (k - 1) \div 2, DirectionColor(candle, 100), high_y, low_y)
            ELSE Prim("body", (k - 1) \div 2, DirectionColor(candle, 100),
                      FMin(open_y, close_y),
                      FMax(FAbsDiff(open_y, close_y), Whole(1)))]

\* InChart that tests the x coordinate only
InChart_XOnly(cursor_pos, g) ==
    cursor_pos.x >= g.chart_x /\ cursor_pos.x <= g.chart_x + g.chart_width

\* cursor_pos lies within the chart bounds, edges included
InChart(cursor_pos, g) ==
    /\ cursor_pos.x >= g.chart_x /\ cursor_pos.x <= g.chart_x + g.chart_width
    /\ cursor_pos.y >= g.chart_y /\ cursor_pos.y <= g.chart_y + g.chart_height

\* the info box of candle candle_index: background, border and six texts
InfoBox(cs, candle_index) ==
    LET candle == cs[candle_index + 1]
        text(kind, value) == Prim(kind, candle_index, Color("info", 100), Whole(value), Whole(0))
    IN  << Prim("info_bg", candle_index, Color("black", 80), Whole(0), Whole(0)),
           Prim("info_border", candle_index, Color("info_border", 100), Whole(0), Whole(0)),
           text("info_time", candle.timestamp),
           text("info_open", candle.open),
           text("info_high", candle.high),
           text("info_low", candle.low),
           text("info_close", candle.close),
           text("info_volume", candle.volume) >>

\* crosshair and info box, if the cursor is present and within the chart
Crosshair(cs, g, cursor_pos) ==
    IF cursor_pos.some /\ InChart(cursor_pos, g)
    THEN LET candle_index == CandleIndex(cursor_pos.x, g, Len(cs))
         IN  << Prim("crosshair_v", 0, Color("crosshair", 50), Whole(cursor_pos.x), Whole(0)),
                Prim("crosshair_h", 0, Color("crosshair", 50), Whole(cursor_pos.y), Whole(0)) >>
             \o (IF candle_index < Len(cs) THEN InfoBox(cs, candle_index) ELSE << >>)
    ELSE << >>

\* Painted with the volume bars drawn after the candlesticks
Painted_VolumesOnTop(background, grid, labels, border, volumes, candlesticks, crosshair) ==
    background \o grid \o labels \o border \o candlesticks \o volumes \o crosshair

\* the order in which draw puts the primitives on the frame
Painted(background, grid, labels, border, volumes, candlesticks, crosshair) ==
    background \o grid \o labels \o border \o volumes \o candlesticks \o crosshair

NoFrame == [prims |-> << >>]

\* fn draw(&self, state, renderer, theme, bounds, cursor) -> Vec<Geometry>
draw(self_candles, state, bounds) ==
    IF Len(self_candles) = 0 THEN NoFrame
    ELSE LET g == Geometry(bounds)
             sc == Scale(self_candles)
         IN  [prims |-> Painted(Background,
                                GridLines(sc, g),
                                XLabels(self_candles, g),
                                Border,
                                VolumeBars(self_candles, sc, g),
                                Candlesticks(self_candles, sc, g),
                                Crosshair(self_candles, g, state.cursor_position))]

\* the canvas draws the chart for the current ChartState
Draw ==
    /\ UNCHANGED <<appVars, ctlVars, chart_candles>>
    /\ frame' = draw(chart_candles, State, Bounds)

\* where the cursor is reported while a chart is drawn: on the edges of the
\* plotting rectangle, on candle boundaries, inside and outside
HoverPoints ==
    LET g == Geometry(Bounds)
    IN  {Point(x, g.chart_y + g.chart_height \div 2) :
             x \in {0, g.chart_x, g.chart_x + 73, g.chart_x + 146, g.chart_x + 273,
                    g.chart_x + g.chart_width \div 2, g.chart_x + g.chart_width,
                    g.chart_x + g.chart_width + 1}}
        \cup {Point(g.chart_x + g.chart_width \div 2, y) :
                  y \in {0, g.chart_y, g.chart_y + g.chart_height,
                         g.chart_y + g.chart_height + 1}}

----------------------------------------------------------------------------

\* App::new, the user picking among `intervals`
AppInitOver(intervals) ==
    /\ chart = None
    /\ candles = EmptyVec
    /\ selected_interval = DefaultInterval
    /\ loading = FALSE
    /\ error = NoError
    /\ visible_candles = InitialVisible
    /\ pan_offset = 0
    /\ pending = [i \in intervals |-> IF i = DefaultInterval THEN 1 ELSE 0]
    /\ panicked = FALSE

\* App::new
AppInit == AppInitOver(Intervals)

\* App::new: the initial state and the initial fetch of the default interval;
\* no chart is drawn yet
Init ==
    /\ AppInit
    /\ CtlInit
    /\ chart_candles = << >>
    /\ frame = NoFrame

Next ==
    \/ \E interval \in Intervals : IntervalSelected(interval)
    \/ RefreshData
    \/ \E interval \in Intervals : \E result \in Results(interval) :
           DataFetched(interval, result)
    \/ \E oc \in OverflowChecks : ZoomIn(oc)
    \/ \E oc \in OverflowChecks : ZoomOut(oc)
    \/ \E delta \in WheelDeltas : \E oc \in OverflowChecks : ChartZoom(delta, oc)
    \/ \E pixel_delta \in PixelDeltas : \E oc \in OverflowChecks :
           ChartPan(pixel_delta, oc)

\* the application: every message App::update handles
Spec == Init /\ [][Next]_vars

NextChart ==
    \/ \E y \in WheelDeltas : \E cursor \in Cursors : WheelScrolled(y, cursor)
    \/ \E cursor \in Cursors : ButtonPressed(cursor)
    \/ \E cursor \in Cursors : ButtonReleased(cursor)
    \/ \E cursor \in Cursors : CursorMoved(cursor)
    \/ \E cursor \in Cursors : CursorLeft(cursor)
    \/ \E cursor \in Cursors : OtherEvent(cursor)

\* the canvas program: every event Program::update handles, from
\* ChartState::default()
SpecChart == Init /\ [][NextChart]_vars

\* a chart of some candles is in the view
InitDraw ==
    /\ AppInit
    /\ CtlInit
    /\ chart_candles \in ChartInputs
    /\ frame = NoFrame

NextDraw ==
    \/ \E cursor \in HoverPoints : CursorMoved(cursor)
    \/ CursorLeft(NoPoint)
    \/ Draw

\* the canvas program drawing a chart while the pointer hovers over it
SpecDraw == InitDraw /\ [][NextDraw]_vars

\* the application picking among two intervals
InitFetch ==
    /\ AppInitOver(FetchIntervals)
    /\ CtlInit
    /\ chart_candles = << >>
    /\ frame = NoFrame

\* the fetches fetch_klines completes successfully
OkResults(interval) == {result \in Results(interval) : result.ok}

NextFetch ==
    \/ \E interval \in FetchIntervals : IntervalSelected(interval)
    \/ RefreshData
    \/ \E interval \in FetchIntervals : \E result \in OkResults(interval) :
           DataFetched(interval, result)

\* the fetch shell: interval changes, refreshes and successful completions,
\* the tasks in flight completing in any order
SpecFetch == InitFetch /\ [][NextFetch]_vars

----------------------------------------------------------------------------
(* Properties *)

NonEmpty == VecLen(candles) > 0
\* visible_candles is a count of bars of the series
VisibleInRange ==
    /\ ~Wrapped(visible_candles)
    /\ 0 < visible_candles
    /\ visible_candles <= VecLen(candles)

Min(a, b) == IF a <= b THEN a ELSE b
Max(a, b) == IF a >= b THEN a ELSE b
\* a / b truncated toward zero, b > 0
TruncDiv(a, b) == IF a >= 0 THEN a \div b ELSE -((-a) \div b)
Clamp(x, lo, hi) == IF x < lo THEN lo ELSE IF x > hi THEN hi ELSE x

\* steps of the window operations
ButtonZoomInStep == \E oc \in OverflowChecks : ZoomIn(oc)
ButtonZoomOutStep == \E oc \in OverflowChecks : ZoomOut(oc)
WheelZoomStep(delta) == \E oc \in OverflowChecks : ChartZoom(delta, oc)
PanStep(pixel_delta) == \E oc \in OverflowChecks : ChartPan(pixel_delta, oc)
AnyZoomStep ==
    ButtonZoomInStep \/ ButtonZoomOutStep \/ \E delta \in WheelDeltas : WheelZoomStep(delta)
AnyPanStep == \E pixel_delta \in PixelDeltas : PanStep(pixel_delta)

\* C1: whenever the series is non-empty, 0 < visible_count <= length of the
\* series, after any sequence of loads, zooms and pans.
C1_VisibleCountInRange == NonEmpty => VisibleInRange

\* C2: whenever the series is non-empty, 0 <= pan_offset <= length -
\* visible_count; every zoom re-clamps pan_offset into that range.  Stated
\* for the states in which visible_count is itself in range (C1), so that a
\* violation is a pan_offset no zoom re-clamped.
C2_PanOffsetInRange ==
    (NonEmpty /\ VisibleInRange) =>
        (0 <= pan_offset /\ pan_offset <= VecLen(candles) - visible_candles)

\* C3: whenever the series is non-empty, the chart handed to the renderer is
\* the slice [length - pan_offset - visible_count, length - pan_offset) of the
\* series: it holds exactly visible_count bars and, when pan_offset = 0, it
\* ends with the most recent bar.
C3_ChartIsVisibleRange ==
    NonEmpty =>
        LET end == VecLen(candles) - pan_offset
            start == end - visible_candles
        IN  /\ ~Wrapped(visible_candles)
            /\ 0 <= start
            /\ chart = SomeSlice(candles, start, end)
            /\ ChartLen(chart) = visible_candles
            /\ (pan_offset = 0 /\ visible_candles > 0) => chart.end = VecLen(candles)

\* C4: a successful load of bars B replaces the series with B, sets pan_offset
\* to 0 and visible_count to min(previous visible_count, length of B).
C4_LoadReplacesSeries ==
    [][\A interval \in Intervals : \A result \in Results(interval) :
          (result.ok /\ DataFetched(interval, result)) =>
              /\ candles' = result.candles
              /\ pan_offset' = 0
              /\ visible_candles' =
                     (IF Wrapped(visible_candles)
                         \/ visible_candles > VecLen(result.candles)
                      THEN VecLen(result.candles) ELSE visible_candles)]_vars

\* a load has clamped visible_count to a short series, and the chart shows it
C4_Witness ==
    /\ candles = Series(DefaultInterval, ShortLen)
    /\ visible_candles = ShortLen
    /\ pan_offset = 0
    /\ chart = SomeSlice(candles, 0, ShortLen)
    /\ ~loading

\* C5: a pan by pixel_delta sets pan_offset to clamp(pan_offset +
\* trunc(pixel_delta * 2 / (surface_width / visible_count)), 0, length -
\* visible_count); a positive delta never decreases pan_offset, a pan beyond
\* the history lands on length - visible_count, the visible slice stays in
\* range, and -50 px at visible_count 100 is -12 bars.  Stated for a
\* non-empty series with visible_count in range.
C5_PanFormula ==
    [][\A pixel_delta \in PixelDeltas :
          (PanStep(pixel_delta) /\ NonEmpty /\ VisibleInRange) =>
              LET max_offset == VecLen(candles) - visible_candles
                  bars == TruncDiv(pixel_delta * Sensitivity * visible_candles,
                                   SurfaceWidth)
              IN  /\ pan_offset' = Clamp(pan_offset + bars, 0, max_offset)
                  /\ pixel_delta > 0 => pan_offset' >= pan_offset
                  /\ pan_offset + bars >= max_offset => pan_offset' = max_offset
                  /\ chart'.some /\ 0 <= chart'.start /\ chart'.end <= VecLen(candles)
                  /\ CandleDelta(-50, InitialVisible) = -12]_vars

\* C6: from every reachable visible_count, zoom-in gives max(visible_count -
\* step, 10) and zoom-out gives min(visible_count + step, length), step 10
\* for the buttons and 5 for the wheel.
C6_ZoomSteps ==
    [][~Wrapped(visible_candles) =>
          /\ ButtonZoomInStep =>
                 visible_candles' = Max(visible_candles - ButtonStep, MinVisible)
          /\ ButtonZoomOutStep =>
                 visible_candles' = Min(visible_candles + ButtonStep, VecLen(candles))
          /\ \A delta \in WheelDeltas :
                 WheelZoomStep(delta) =>
                     visible_candles' =
                         (IF delta > 0
                          THEN Max(visible_candles - WheelStep, MinVisible)
                          ELSE Min(visible_candles + WheelStep, VecLen(candles)))]_vars

\* C7: while the series is empty, every zoom and every pan leaves
\* visible_count, pan_offset and the chart unchanged.
C7_EmptySeriesNoOp ==
    [][(VecLen(candles) = 0 /\ (AnyZoomStep \/ AnyPanStep)) =>
          UNCHANGED <<visible_candles, pan_offset, chart>>]_vars

\* C8: after a successful load of an empty bar sequence the chart handed to
\* the renderer holds no bars.
C8_EmptyLoadDrawsNothing ==
    [][\A interval \in Intervals : \A result \in Results(interval) :
          (result.ok /\ VecLen(result.candles) = 0 /\ DataFetched(interval, result)) =>
              ChartLen(chart') = 0]_vars

\* C9: a failed fetch completion leaves the series, visible_count, pan_offset
\* and the chart as they were and stores the error message; a successful
\* completion clears the stored error.
C9_FailedFetchKeepsState ==
    [][\A interval \in Intervals : \A result \in Results(interval) :
          DataFetched(interval, result) =>
              IF result.ok THEN error' = NoError
              ELSE /\ UNCHANGED <<candles, visible_candles, pan_offset, chart>>
                   /\ error' = result.e
                   /\ error' \in ErrMsgs]_vars

\* a fetch has failed while a panned chart of a loaded series is shown
C9_Witness ==
    /\ error \in ErrMsgs
    /\ NonEmpty
    /\ pan_offset > 0
    /\ chart = SomeSlice(candles, VecLen(candles) - pan_offset - visible_candles,
                         VecLen(candles) - pan_offset)

\* C10, but for the pointer-move: Dragging is entered only by a left press
\* with a known cursor position and left only by a left release, neither
\* emits anything, a Pan is emitted only by a pointer-move in Dragging, and a
\* pointer-move in Idle changes the hover position only.
C10_Transitions ==
    /\ (~dragging /\ dragging') =>
           (event'.kind = "ButtonPressed" /\ event'.cursor.some)
    /\ (dragging /\ ~dragging') => event'.kind = "ButtonReleased"
    /\ event'.kind \in {"ButtonPressed", "ButtonReleased"} => returned'.msg = "None"
    /\ returned'.msg = "Pan" => (dragging /\ event'.kind = "CursorMoved")
    /\ (event'.kind = "CursorMoved" /\ ~dragging) =>
           /\ cursor_position' = event'.cursor
           /\ UNCHANGED <<dragging, last_x>>

\* C10: Pan commands are emitted only in Dragging (C10_Transitions), and a
\* pointer-move emits a Pan if and only if the state is Dragging.
C10_PanIffDragging ==
    [][/\ C10_Transitions
       /\ event'.kind = "CursorMoved" => (returned'.msg = "Pan" <=> dragging)]_vars

\* C10 as amended: Pan commands are emitted only in Dragging
\* (C10_Transitions), and a pointer-move emits a Pan if and only if the state
\* is Dragging and the cursor position is known.
C10_PanIffDraggingKnownCursor ==
    [][/\ C10_Transitions
       /\ event'.kind = "CursorMoved" =>
              (returned'.msg = "Pan" <=> (dragging /\ event'.cursor.some))]_vars

\* a pointer-move in Dragging has emitted a Pan of a non-zero delta
C10_Witness ==
    /\ dragging
    /\ event.kind = "CursorMoved"
    /\ returned = Ret("Captured", "Pan", 50)
    /\ last_x = event.cursor.x

\* C13: whenever the series is non-empty, visible_count >= min(10, length),
\* also when a short series was loaded before a long one.  (A wrapped
\* visible_count is a huge unsigned value and counts as large enough.)
C13_AtLeastMinVisible ==
    NonEmpty =>
        (Wrapped(visible_candles)
         \/ visible_candles >= Min(MinVisible, VecLen(candles)))

\* what the pair (zoom-in, zoom-out) of the buttons and of the wheel make of
\* the application state s
ButtonZoomPair(s, oc1, oc2) == OnZoomOut(OnZoomIn(s, ButtonStep, oc1), ButtonStep, oc2)
WheelZoomPair(s, oc1, oc2) == OnChartZoom(OnChartZoom(s, 1, oc1), -1, oc2)

\* C14: from a state with visible_count - step >= 10 and visible_count <=
\* length, a zoom-in step leaves a state from which the zoom-out with the
\* same step (buttons: 10, wheel: 5) gives back the visible_count and the
\* pan_offset of before the zoom-in, and the pair computed by the two
\* handlers does the same.
C14_ZoomInThenOut ==
    [][/\ (ButtonZoomInStep /\ ~Wrapped(visible_candles)
             /\ visible_candles - ButtonStep >= MinVisible
             /\ visible_candles <= VecLen(candles)) =>
              \A oc \in OverflowChecks :
                  /\ visible_candles' = visible_candles - ButtonStep
                  /\ pan_offset' = pan_offset
                  /\ OnZoomOut(Self', ButtonStep, oc).visible_candles = visible_candles
                  /\ OnZoomOut(Self', ButtonStep, oc).pan_offset = pan_offset
                  /\ ButtonZoomPair(Self, oc, oc).visible_candles = visible_candles
                  /\ ButtonZoomPair(Self, oc, oc).pan_offset = pan_offset
       /\ (WheelZoomStep(1) /\ ~Wrapped(visible_candles)
             /\ visible_candles - WheelStep >= MinVisible
             /\ visible_candles <= VecLen(candles)) =>
              \A oc \in OverflowChecks :
                  /\ visible_candles' = visible_candles - WheelStep
                  /\ pan_offset' = pan_offset
                  /\ OnChartZoom(Self', -1, oc).visible_candles = visible_candles
                  /\ OnChartZoom(Self', -1, oc).pan_offset = pan_offset
                  /\ WheelZoomPair(Self, oc, oc).visible_candles = visible_candles
                  /\ WheelZoomPair(Self, oc, oc).pan_offset = pan_offset]_vars

\* a panned window that only wheel zooms can have produced, with room for a
\* further unclamped zoom-in and zoom-out
C14_Witness ==
    /\ VecLen(candles) = LongLen
    /\ visible_candles = InitialVisible - WheelStep
    /\ pan_offset = LongLen - InitialVisible
    /\ chart = SomeSlice(candles, WheelStep, InitialVisible)
    /\ ~panicked

\* C15: a pointer-leave sets the hover position to none, emits nothing and
\* leaves the drag flag and the anchor unchanged; whatever a pointer-move
\* would have emitted before the leave it emits after it, a Pan from the
\* unchanged anchor when a drag is in progress.
C15_LeaveKeepsDrag ==
    [][(\E c \in Cursors : CursorLeft(c)) =>
          /\ cursor_position' = NoPoint
          /\ UNCHANGED <<dragging, last_x>>
          /\ returned'.msg = "None"
          /\ \A c \in Cursors :
                 /\ OnCursorMoved(State', c).ret = OnCursorMoved(State, c).ret
                 /\ OnCursorMoved(State', c).state.dragging = dragging
                 /\ (dragging /\ c.some) =>
                        OnCursorMoved(State', c).ret = Ret("Captured", "Pan", c.x - last_x)]_vars

\* the pointer has left during a drag anchored at a non-zero x
C15_Witness ==
    /\ dragging
    /\ last_x = 50 * MaxPos
    /\ event.kind = "CursorLeft"
    /\ cursor_position = NoPoint
    /\ returned = Ret("Ignored", "None", 0)

\* application states on which the emitted Zoom is applied: a long series
\* with room to zoom both ways
ZoomSamples ==
    {[Self EXCEPT !.candles = Series(DefaultInterval, LongLen),
                  !.visible_candles = vc,
                  !.chart = SomeSlice(Series(DefaultInterval, LongLen), LongLen - vc, LongLen)] :
         vc \in {MinVisible + WheelStep, InitialVisible}}

\* C16: a wheel-scroll(y) in Idle emits exactly the command Zoom(y) and
\* leaves the drag flag, the anchor and the hover position unchanged; the
\* application applies Zoom(y) as a zoom-in (5 bars fewer) if y > 0 and as a
\* zoom-out (5 bars more) otherwise, y = 0 included.
C16_WheelZooms ==
    [][\A y \in WheelDeltas :
          ((\E c \in Cursors : WheelScrolled(y, c)) /\ ~dragging) =>
              /\ returned' = Ret("Captured", "Zoom", y)
              /\ UNCHANGED <<dragging, last_x, cursor_position>>
              /\ \A s \in ZoomSamples : \A oc \in OverflowChecks :
                     /\ OnChartZoom(s, y, oc).visible_candles =
                            (IF y > 0 THEN s.visible_candles - WheelStep
                                      ELSE s.visible_candles + WheelStep)
                     /\ OnChartZoom(s, y, oc) =
                            (IF y > 0 THEN OnZoomIn(s, WheelStep, oc)
                                      ELSE OnZoomOut(s, WheelStep, oc))]_vars

\* a wheel-scroll of delta 0 was handled in Idle while the pointer hovers
C16_Witness ==
    /\ ~dragging
    /\ event.kind = "WheelScrolled"
    /\ event.y = 0
    /\ returned = Ret("Captured", "Zoom", 0)
    /\ cursor_position.some

\* C19: whenever a button zoom-in (step 10) or a wheel zoom-in (step 5) is
\* processed, visible_count >= step: the subtraction neither wraps nor
\* aborts.
C19_NoZoomInUnderflow ==
    [][/\ ButtonZoomInStep =>
              (~USubOverflows(visible_candles, ButtonStep) /\ ~panicked'
               /\ ~Wrapped(visible_candles'))
       /\ (\E delta \in WheelDeltas : delta > 0 /\ WheelZoomStep(delta)) =>
              (~USubOverflows(visible_candles, WheelStep) /\ ~panicked'
               /\ ~Wrapped(visible_candles'))]_vars

\* C20: in every reachable state 0 <= pan_offset <= length, so length -
\* pan_offset does not underflow in update_chart, and the slice it takes of
\* a non-empty series has 0 <= start <= end <= length and is the chart.
C20_SliceInBounds ==
    /\ ~Wrapped(pan_offset)
    /\ pan_offset <= VecLen(candles)
    /\ NonEmpty =>
           LET end == VecLen(candles) - pan_offset
               start == USatSub(end, visible_candles)
           IN  /\ 0 <= start /\ start <= end /\ end <= VecLen(candles)
               /\ chart = SomeSlice(candles, start, end)

\* the window was panned to the oldest bars and then widened, so that the
\* start of the slice saturates at 0
C20_Witness ==
    /\ VecLen(candles) = LongLen
    /\ pan_offset = LongLen - InitialVisible
    /\ visible_candles = InitialVisible + ButtonStep
    /\ chart = SomeSlice(candles, 0, InitialVisible)

\* the primitives of one kind on a frame, in order
PrimsOf(f, kinds) == SelectSeq(f.prims, LAMBDA p : p.kind \in kinds)
InfoKinds == {"info_bg", "info_border", "info_time", "info_open", "info_high",
              "info_low", "info_close", "info_volume"}
\* a chart of at least one candle is drawn
DrawsCandles == Draw /\ Len(chart_candles) > 0

\* C11: when a non-empty chart is drawn no divisor is zero (price span,
\* largest volume, number of bars), so every coordinate on the frame is
\* finite; a single bar with open = high = low = close and volume 0 gets a
\* wick of length 0 and a volume bar of height 0.
C11_NoZeroDivisor ==
    [][DrawsCandles =>
          /\ PriceSpan(chart_candles) # 0
          /\ MaxVolume(chart_candles) # 0
          /\ Len(chart_candles) # 0
          /\ \A k \in DOMAIN frame'.prims :
                 frame'.prims[k].a.fin /\ frame'.prims[k].b.fin
          /\ chart_candles = Candles(1, FlatCandle, FlatCandle) =>
                 /\ \A k \in DOMAIN frame'.prims :
                        LET p == frame'.prims[k]
                        IN  /\ p.kind = "wick" => (p.a.fin /\ p.a = p.b)
                            /\ p.kind = "volume_bar" => (p.b.fin /\ p.b.num = 0)]_vars

\* trunc(dx / bar_width) in f32, with bar_width = chart_width / visible_count
HoverIndex(dx, chart_width, n) ==
    IF dx = 0 THEN 0
    ELSE F32ToUsize(F32Div(F32(dx), F32Div(F32(chart_width), F32(n))))

\* C12: when the hover position lies in the plotting rectangle, edges
\* included, the info box is that of the visible bar at index
\* trunc((x - chart_x) / bar_width), bar_width = chart_width / visible_count,
\* if that index is below visible_count, and is omitted otherwise: no bar
\* outside the visible range is read.  The index is the one of exact
\* arithmetic, or the bar to its left when x is exactly on a bar boundary.
C12_InfoBoxOfHoveredBar ==
    [][(DrawsCandles /\ cursor_position.some
          /\ InChart(cursor_position, Geometry(Bounds))) =>
          LET g == Geometry(Bounds)
              n == Len(chart_candles)
              dx == cursor_position.x - g.chart_x
              index == HoverIndex(dx, g.chart_width, n)
              exact == (dx * n) \div g.chart_width
              info == PrimsOf(frame', InfoKinds)
          IN  /\ index = exact \/ (index = exact - 1 /\ (dx * n) % g.chart_width = 0)
              /\ IF index < n
                 THEN /\ Len(info) = Cardinality(InfoKinds)
                      /\ \A k \in DOMAIN info : info[k].i = index
                      /\ info[3] = Prim("info_time", index, Color("info", 100),
                                        Whole(chart_candles[index + 1].timestamp), Whole(0))
                      /\ info[4].a = Whole(chart_candles[index + 1].open)
                      /\ info[5].a = Whole(chart_candles[index + 1].high)
                      /\ info[6].a = Whole(chart_candles[index + 1].low)
                      /\ info[7].a = Whole(chart_candles[index + 1].close)
                      /\ info[8].a = Whole(chart_candles[index + 1].volume)
                 ELSE /\ index = n
                      /\ info = << >>]_vars

\* the info box of visible bar 37 of a 100-bar window is on the frame
C12_Witness ==
    /\ Len(chart_candles) = WideLen
    /\ cursor_position.some
    /\ cursor_position.x = LeftMargin + 273
    /\ \E k \in DOMAIN frame.prims :
           /\ frame.prims[k].kind = "info_time"
           /\ frame.prims[k].i = 37
           /\ frame.prims[k].a = Whole(chart_candles[38].timestamp)

\* the layer of a primitive
Layer(kind) ==
    CASE kind = "background" -> 1
      [] kind \in {"grid_line", "price_label"} -> 2
      [] kind = "x_label" -> 3
      [] kind = "border" -> 4
      [] kind = "volume_bar" -> 5
      [] kind \in {"wick", "body"} -> 6
      [] kind \in {"crosshair_v", "crosshair_h"} -> 7
      [] kind \in InfoKinds -> 8

\* C17: the frame of a non-empty chart holds, in this order, the
\* background, the grid lines with their price labels, the x-axis labels,
\* the border, a volume bar per bar, a wick and a body per bar, then the
\* crosshair and the info box if any: every volume bar precedes every body
\* and nothing follows crosshair and info box.
C17_PaintOrder ==
    [][DrawsCandles =>
          LET ps == frame'.prims
              n == Len(chart_candles)
          IN  /\ ps[1].kind = "background"
              /\ \A k \in 1..(Len(ps) - 1) : Layer(ps[k].kind) <= Layer(ps[k + 1].kind)
              /\ Len(PrimsOf(frame', {"background"})) = 1
              /\ Len(PrimsOf(frame', {"grid_line"})) = NumPriceLines + 1
              /\ Len(PrimsOf(frame', {"price_label"})) = NumPriceLines + 1
              /\ Len(PrimsOf(frame', {"x_label"})) = Min(MaxXLabels, n)
              /\ Len(PrimsOf(frame', {"border"})) = 1
              /\ Len(PrimsOf(frame', {"volume_bar"})) = n
              /\ Len(PrimsOf(frame', {"wick"})) = n
              /\ Len(PrimsOf(frame', {"body"})) = n
              /\ SetMax({k \in DOMAIN ps : ps[k].kind = "volume_bar"})
                     < SetMin({k \in DOMAIN ps : ps[k].kind = "body"})
              /\ \A k \in DOMAIN ps :
                     Layer(ps[k].kind) >= 7 => Layer(ps[Len(ps)].kind) >= 7]_vars

\* a frame with volume bars, candles, crosshair and info box, the info box last
C17_Witness ==
    /\ Len(chart_candles) = MaxBars
    /\ Len(frame.prims) > 0
    /\ frame.prims[Len(frame.prims)].kind = "info_volume"
    /\ Len(PrimsOf(frame, {"volume_bar", "body", "crosshair_v"})) = 2 * MaxBars + 1

\* C18: a bar is bullish iff close >= open, close == open included, and its
\* volume bar, its wick and its body are all coloured by that classification.
C18_BullishIffCloseGeOpen ==
    [][DrawsCandles =>
          /\ \A i \in DOMAIN chart_candles :
                 is_bullish(chart_candles[i])
                     <=> chart_candles[i].close >= chart_candles[i].open
          /\ \A k \in DOMAIN frame'.prims :
                 LET p == frame'.prims[k]
                 IN  p.kind \in {"volume_bar", "wick", "body"} =>
                         p.color.hue =
                             (IF chart_candles[p.i + 1].close >= chart_candles[p.i + 1].open
                              THEN "green" ELSE "red")]_vars

\* a bar with close == open was drawn with a bullish body and volume bar,
\* next to a bearish bar
C18_Witness ==
    /\ chart_candles = Candles(2, DojiCandle, BearCandle)
    /\ Len(frame.prims) > 0
    /\ \E j \in DOMAIN frame.prims : \E k \in DOMAIN frame.prims :
           /\ frame.prims[j].kind = "volume_bar" /\ frame.prims[j].i = 0
           /\ frame.prims[j].color.hue = "green"
           /\ frame.prims[k].kind = "body" /\ frame.prims[k].i = 0
           /\ frame.prims[k].color.hue = "green"
    /\ \E k \in DOMAIN frame.prims :
           frame.prims[k].kind = "body" /\ frame.prims[k].color.hue = "red"

\* the pointer-moves to the positions xs handled one after the other from
\* the ChartState st: the Pan deltas they emit, and the anchor they leave
RECURSIVE DragDeltas(_, _)
DragDeltas(st, xs) ==
    IF xs = << >> THEN [deltas |-> << >>, last_x |-> st.last_x, allPan |-> TRUE]
    ELSE LET r == OnCursorMoved(st, Point(Head(xs), 100))
             rest == DragDeltas(r.state, Tail(xs))
         IN  [deltas |-> <<r.ret.arg>> \o rest.deltas,
              last_x |-> rest.last_x,
              allPan |-> r.ret.msg = "Pan" /\ rest.allPan]
RECURSIVE SeqSum(_)
SeqSum(q) == IF q = << >> THEN 0 ELSE Head(q) + SeqSum(Tail(q))
\* the moves of one drag: up to MaxMoves positions
MaxMoves == 3
DragPaths == UNION {[1..n -> Xs] : n \in 1..MaxMoves}

\* C21: after a left press at x0, pointer-moves to x1..xn with no release in
\* between emit Pan(x1 - x0), Pan(x2 - x1), .., Pan(xn - x(n-1)), each
\* setting the anchor to its position; the deltas sum to xn - x0.  A
\* pointer-move handled while dragging emits the delta from the anchor and
\* moves the anchor.
C21_IncrementalDeltas ==
    [][/\ (\E c \in Cursors : c.some /\ ButtonPressed(c)) =>
              \A xs \in DragPaths :
                  LET x0 == event'.cursor.x
                      d == DragDeltas(State', xs)
                  IN  /\ last_x' = x0
                      /\ d.allPan
                      /\ Len(d.deltas) = Len(xs)
                      /\ \A i \in DOMAIN xs :
                             d.deltas[i] = xs[i] - (IF i = 1 THEN x0 ELSE xs[i - 1])
                      /\ d.last_x = xs[Len(xs)]
                      /\ SeqSum(d.deltas) = xs[Len(xs)] - x0
       /\ (\E c \in Cursors : c.some /\ CursorMoved(c) /\ dragging) =>
              /\ returned' = Ret("Captured", "Pan", event'.cursor.x - last_x)
              /\ last_x' = event'.cursor.x]_vars

\* the second move of a drag has emitted the step from the first move's
\* position, not the displacement from the press
C21_Witness ==
    /\ dragging
    /\ event = Ev("CursorMoved", 0, Point(0, 100))
    /\ returned = Ret("Captured", "Pan", -50)
    /\ last_x = 0
    /\ cursor_position = Point(0, 100)

\* C22: a pan whose bar delta is below one bar in magnitude, |pixel_delta *
\* 2.0 / pixels_per_bar| < 1 with pixels_per_bar = 800 / visible_count,
\* leaves pan_offset unchanged, and so does any sequence of such pans: the
\* fraction is truncated on every event and nothing is carried over.
C22_SubBarPansKeepOffset ==
    [][\A pixel_delta \in PixelDeltas :
          (PanStep(pixel_delta) /\ ~Wrapped(visible_candles)
             /\ Abs(pixel_delta) * Sensitivity * visible_candles < SurfaceWidth) =>
              /\ CandleDelta(pixel_delta, visible_candles) = 0
              /\ pan_offset' = pan_offset]_vars

\* C23: once every issued fetch has completed (successfully), the loaded
\* series is a result of the request for the currently selected interval,
\* the one issued last, in whatever order the completions arrived.
C23_LastRequestWins ==
    (InFlight = 0 /\ ~loading) =>
        candles \in {Series(selected_interval, n) : n \in LoadLens}

CrosshairKinds == {"crosshair_v", "crosshair_h"}
\* the crosshair and info box primitives of a frame
Overlay(f) == PrimsOf(f, CrosshairKinds \cup InfoKinds)
\* p is a position of the plotting rectangle of the surface, edges included
InPlot(p) ==
    /\ LeftMargin <= p.x /\ p.x <= DrawWidth - RightMargin
    /\ TopMargin <= p.y /\ p.y <= DrawHeight - BottomMargin

\* C24: a frame holds a crosshair or an info box only if a hover position is
\* present and lies in the plotting rectangle: a frame drawn after a
\* pointer-leave and before the next pointer-move holds neither, and neither
\* does a frame drawn while the last reported position is outside the
\* rectangle.
C24_CrosshairOnlyInsidePlot ==
    [][/\ Draw =>
              /\ Overlay(frame') # << >> => (cursor_position.some /\ InPlot(cursor_position))
              /\ event.kind = "CursorLeft" => Overlay(frame') = << >>
              /\ (cursor_position.some /\ ~InPlot(cursor_position)) => Overlay(frame') = << >>
       /\ CursorLeft(NoPoint) =>
              /\ cursor_position' = NoPoint
              /\ Overlay(draw(chart_candles, State', Bounds)) = << >>
       /\ (\E c \in HoverPoints : CursorMoved(c) /\ ~InPlot(c)) =>
              Overlay(draw(chart_candles, State', Bounds)) = << >>]_vars

\* after a pointer-leave the chart was drawn without crosshair and info box
C24_Witness ==
    /\ event.kind = "CursorLeft"
    /\ cursor_position = NoPoint
    /\ Len(chart_candles) = 2
    /\ Len(frame.prims) > 0
    /\ frame.prims[Len(frame.prims)].kind = "body"
    /\ frame = draw(chart_candles, State, Bounds)

\* C25: the x-axis labels of a chart of n >= 1 bars are at the indices
\* min(i * stride, n - 1), i = 0 .. min(5, n) - 1, for one stride: at most 5
\* labels, the first at index 0, all within [0, n - 1], strictly increasing,
\* each showing the date of the bar it labels.
C25_XLabelIndices ==
    [][DrawsCandles =>
          LET n == Len(chart_candles)
              labels == PrimsOf(frame', {"x_label"})
          IN  /\ Len(labels) = Min(MaxXLabels, n)
              /\ Len(labels) <= 5
              /\ \E stride \in 1..n :
                     \A k \in DOMAIN labels : labels[k].i = Min((k - 1) * stride, n - 1)
              /\ labels[1].i = 0
              /\ \A k \in DOMAIN labels :
                     /\ 0 <= labels[k].i /\ labels[k].i <= n - 1
                     /\ labels[k].b = Whole(chart_candles[labels[k].i + 1].timestamp)
              /\ \A k \in 1..(Len(labels) - 1) : labels[k].i < labels[k + 1].i]_vars

\* a chart of 8 bars was drawn with its labels at 0, 2, 4, 6 and, clamped, 7
C25_Witness ==
    /\ Len(chart_candles) = 8
    /\ Len(frame.prims) > 0
    /\ LET labels == PrimsOf(frame, {"x_label"})
       IN  /\ Len(labels) = 5
           /\ labels[4].i = 6
           /\ labels[5].i = 7

====
